---------------------------- MODULE Spec2Model ----------------------------
(***************************************************************************)
(* Model of script.js, a colour-perception quiz.                           *)
(*                                                                         *)
(* Strings are sequences of one-character strings.  JavaScript numbers are *)
(* modelled exactly: integers as integers, fractions as reduced rationals  *)
(* <<numerator, denominator>> with denominator > 0 (IEEE rounding is not   *)
(* modelled).  The result of parseInt is a record [nan, val] because it is *)
(* either NaN or an integer.                                               *)
(***************************************************************************)
EXTENDS Integers, Sequences, FiniteSets, TLC

VARIABLES
    pc,              \* "load": script evaluated up to line 179; "run": after
    nq,              \* the value of the constant numQuestions in this run
    questions,       \* global `questions`
    answers,         \* global `answers`
    inputs,          \* value of the DOM inputs answer-0 .. answer-(n-1)
    submitDisabled,  \* submitButton.disabled
    resultDisplay,   \* resultArea.style.display
    scored,          \* what the loop of calculateScore last computed per question
    report,          \* what calculateScore last computed and displayed
    lastOp,          \* the handler that ran last
    runs             \* how often calculateScore ran since the last setupQuestions

vars == <<pc, nq, questions, answers, inputs, submitDisabled, resultDisplay,
          scored, report, lastOp, runs>>

-----------------------------------------------------------------------------
(* Characters and strings *)

HexLower == <<"0","1","2","3","4","5","6","7","8","9","a","b","c","d","e","f">>
HexUpper == <<"0","1","2","3","4","5","6","7","8","9","A","B","C","D","E","F">>

Range(s) == {s[i] : i \in DOMAIN s}

\* String.prototype.toUpperCase, on the characters the model uses
UpperChar(c) ==
    IF \E i \in 11..16 : HexLower[i] = c
    THEN HexUpper[CHOOSE i \in 11..16 : HexLower[i] = c]
    ELSE IF c = "x" THEN "X" ELSE IF c = "g" THEN "G" ELSE c

ToUpperCase(s) == [i \in DOMAIN s |-> UpperChar(s[i])]

\* Number.prototype.toString(16) of a non-negative integer: lower-case digits,
\* no leading zeros
RECURSIVE ToString16(_)
ToString16(n) ==
    IF n < 16 THEN <<HexLower[n + 1]>>
    ELSE ToString16(n \div 16) \o <<HexLower[(n % 16) + 1]>>

\* String.prototype.padStart(len, fill) for a one-character fill
RECURSIVE PadStart(_, _, _)
PadStart(s, len, fill) ==
    IF Len(s) >= len THEN s ELSE PadStart(<<fill>> \o s, len, fill)

\* String.prototype.slice(1)
Slice1(s) == IF Len(s) <= 1 THEN <<>> ELSE SubSeq(s, 2, Len(s))

IsHexDigit(c) == c \in Range(HexLower) \cup Range(HexUpper)

HexVal(c) ==
    IF c \in Range(HexLower)
    THEN (CHOOSE i \in 1..16 : HexLower[i] = c) - 1
    ELSE (CHOOSE i \in 1..16 : HexUpper[i] = c) - 1

IsWhiteSpace(c) == c = " "

RECURSIVE TrimStart(_)
TrimStart(s) ==
    IF s # <<>> /\ IsWhiteSpace(Head(s)) THEN TrimStart(Tail(s)) ELSE s

\* the longest prefix of s made of hexadecimal digits
RECURSIVE DigitPrefix(_)
DigitPrefix(s) ==
    IF s # <<>> /\ IsHexDigit(Head(s))
    THEN <<Head(s)>> \o DigitPrefix(Tail(s))
    ELSE <<>>

RECURSIVE DigitsValue(_)
DigitsValue(z) ==
    IF z = <<>> THEN 0
    ELSE 16 * DigitsValue(SubSeq(z, 1, Len(z) - 1)) + HexVal(z[Len(z)])

NaN == [nan |-> TRUE, val |-> 0]
Num(n) == [nan |-> FALSE, val |-> n]

\* a parse that accepts only strings made of hexadecimal digits alone
ParseInt16_Strict(s) ==
    IF s # <<>> /\ \A k \in DOMAIN s : IsHexDigit(s[k])
    THEN Num(DigitsValue(s)) ELSE NaN

\* parseInt(s, 16): leading white space, an optional sign and an optional
\* 0x/0X prefix are skipped; the longest run of hexadecimal digits that
\* follows is the value; NaN when that run is empty.
ParseInt16(s) ==
    LET t    == TrimStart(s)
        neg  == t # <<>> /\ Head(t) = "-"
        u    == IF t # <<>> /\ Head(t) \in {"+", "-"} THEN Tail(t) ELSE t
        v    == IF Len(u) >= 2 /\ u[1] = "0" /\ u[2] \in {"x", "X"}
                THEN SubSeq(u, 3, Len(u)) ELSE u
        z    == DigitPrefix(v)
    IN  IF z = <<>> THEN NaN
        ELSE Num(IF neg THEN 0 - DigitsValue(z) ELSE DigitsValue(z))

\* ToInt32, applied by >> and & to their operands: NaN becomes 0.  Every
\* integer parseInt can return here has at most maxlength hexadecimal digits,
\* so it lies inside the 32-bit range and is kept as it is.
ToInt32(x) == IF x.nan THEN 0 ELSE x.val

\* (x >> k) & 255 on a 32-bit two's complement integer
ShiftMask(x, k) == (ToInt32(x) \div (2 ^ k)) % 256

\* the same with the shifts of r and b exchanged
hexToRgb_Swapped(hex) ==
    LET bigint == ParseInt16(Slice1(hex))
    IN  <<ShiftMask(bigint, 0), ShiftMask(bigint, 8), ShiftMask(bigint, 16)>>

hexToRgb(hex) ==
    LET bigint == ParseInt16(Slice1(hex))
    IN  <<ShiftMask(bigint, 16), ShiftMask(bigint, 8), ShiftMask(bigint, 0)>>

\* the same without padStart
HexOf_NoPad(r, g, b) ==
    ToUpperCase(<<"#">> \o ToString16(r) \o ToString16(g) \o ToString16(b))

\* lines 59-62 of generateRandomColor: the hex string of r, g, b
HexOf(r, g, b) ==
    LET hexR == PadStart(ToString16(r), 2, "0")
        hexG == PadStart(ToString16(g), 2, "0")
        hexB == PadStart(ToString16(b), 2, "0")
    IN  ToUpperCase(<<"#">> \o hexR \o hexG \o hexB)

generateRandomColor(r, g, b) == [hex |-> HexOf(r, g, b), r |-> r, g |-> g, b |-> b]

-----------------------------------------------------------------------------
(* Exact rational arithmetic *)

Abs(x) == IF x < 0 THEN 0 - x ELSE x

RECURSIVE GCD(_, _)
GCD(a, b) == IF b = 0 THEN a ELSE GCD(b, a % b)

\* n/d reduced, d # 0
Rat(n, d) ==
    LET s == IF d < 0 THEN 0 - 1 ELSE 1
        g == GCD(Abs(n), Abs(d))
    IN  <<(s * n) \div g, (s * d) \div g>>

\* x + y over the least common denominator, so that no intermediate product
\* is larger than needed
RAdd(x, y) ==
    IF x[2] = y[2] THEN Rat(x[1] + y[1], x[2])
    ELSE LET g == GCD(x[2], y[2])
         IN  Rat(x[1] * (y[2] \div g) + y[1] * (x[2] \div g), (x[2] \div g) * y[2])
Neg(x)     == <<0 - x[1], x[2]>>
RSub(x, y) == RAdd(x, Neg(y))
RMul(x, y) ==
    IF x[1] = 0 \/ y[1] = 0 THEN <<0, 1>>
    ELSE LET g1 == GCD(Abs(x[1]), y[2])
             g2 == GCD(Abs(y[1]), x[2])
         IN  Rat((x[1] \div g1) * (y[1] \div g2), (x[2] \div g2) * (y[2] \div g1))
\* x / y, y # 0
RDiv(x, y) == RMul(x, IF y[1] < 0 THEN <<0 - y[2], 0 - y[1]>> ELSE <<y[2], y[1]>>)
RInt(n)    == <<n, 1>>
RLess(x, y) == RSub(x, y)[1] < 0
RAbs(x)    == <<Abs(x[1]), x[2]>>
RMin(x, y) == IF RLess(y, x) THEN y ELSE x

Max3(a, b, c) == IF a >= b /\ a >= c THEN a ELSE IF b >= c THEN b ELSE c
Min3(a, b, c) == IF a <= b /\ a <= c THEN a ELSE IF b <= c THEN b ELSE c

\* rgbToHsl on integer channels; max, min, d below are 255 times the code's
rgbToHsl(r, g, b) ==
    LET max == Max3(r, g, b)
        min == Min3(r, g, b)
        l   == Rat(max + min, 2 * 255)
        d   == max - min
        s   == IF RLess(Rat(1, 2), l)
               THEN Rat(d, 2 * 255 - max - min)
               ELSE Rat(d, max + min)
        h0  == IF max = r
               THEN RAdd(Rat(g - b, d), RInt(IF g < b THEN 6 ELSE 0))
               ELSE IF max = g
               THEN RAdd(Rat(b - r, d), RInt(2))
               ELSE RAdd(Rat(r - g, d), RInt(4))
        h   == RDiv(h0, RInt(6))
    IN  IF max = min
        THEN <<RInt(0), RInt(0), RMul(l, RInt(100))>>
        ELSE <<RMul(h, RInt(360)), RMul(s, RInt(100)), RMul(l, RInt(100))>>

-----------------------------------------------------------------------------
(* Number formatting *)

Digits == <<"0","1","2","3","4","5","6","7","8","9">>

RECURSIVE DecString(_)
DecString(n) ==
    IF n < 10 THEN <<Digits[n + 1]>>
    ELSE DecString(n \div 10) \o <<Digits[(n % 10) + 1]>>

\* the string Number.prototype.toFixed(f) builds from the sign and the integer
\* n nearest to |x| * 10^f
FixedString(negative, n, f) ==
    LET m == PadStart(DecString(n), f + 1, "0")
        k == Len(m) - f
    IN  (IF negative THEN <<"-">> ELSE <<>>)
        \o SubSeq(m, 1, k) \o <<".">> \o SubSeq(m, k + 1, Len(m))

\* x.toFixed(f) for a rational x: n is the integer nearest to |x| * 10^f, the
\* larger one on a tie
ToFixed(x, f) ==
    LET p == Abs(x[1]) * (10 ^ f)
        q == x[2]
        n == (2 * p + q) \div (2 * q)
    IN  FixedString(x[1] < 0, n, f)

\* Natural numbers beyond 32 bits: little-endian sequences of base-1000 limbs
RECURSIVE BigMul(_, _, _)
BigMul(a, m, carry) ==
    IF a = <<>>
    THEN IF carry = 0 THEN <<>>
         ELSE <<carry % 1000>> \o BigMul(<<>>, m, carry \div 1000)
    ELSE LET t == Head(a) * m + carry
         IN  <<t % 1000>> \o BigMul(Tail(a), m, t \div 1000)

RECURSIVE BigStrip(_)
BigStrip(a) ==
    IF a # <<>> /\ a[Len(a)] = 0 THEN BigStrip(SubSeq(a, 1, Len(a) - 1)) ELSE a

RECURSIVE BigLeqSameLen(_, _)
BigLeqSameLen(a, b) ==
    IF a = <<>> THEN TRUE
    ELSE LET k == Len(a)
         IN  IF a[k] # b[k] THEN a[k] < b[k]
             ELSE BigLeqSameLen(SubSeq(a, 1, k - 1), SubSeq(b, 1, k - 1))

BigLeq(a, b) ==
    LET x == BigStrip(a)
        y == BigStrip(b)
    IN  IF Len(x) # Len(y) THEN Len(x) < Len(y) ELSE BigLeqSameLen(x, y)

\* n - 1/2 <= 10^6 * sqrt(p/q), i.e. (2n-1)^2 * q <= 4 * 10^12 * p
RoundsAtLeast(n, p, q) ==
    \/ n = 0
    \/ BigLeq(BigMul(BigMul(BigMul(<<1>>, 2 * n - 1, 0), 2 * n - 1, 0), q, 0),
              BigMul(BigMul(<<0, 0, 0, 0, 1>>, 4, 0), p, 0))

RECURSIVE LargestRounding(_, _, _, _)
LargestRounding(lo, hi, p, q) ==
    IF lo = hi THEN lo
    ELSE LET mid == (lo + hi + 1) \div 2
         IN  IF RoundsAtLeast(mid, p, q)
             THEN LargestRounding(mid, hi, p, q)
             ELSE LargestRounding(lo, mid - 1, p, q)

\* (Math.sqrt(mse) * 100).toFixed(4) for a rational 0 <= mse <= 1
RmseToFixed4(mse) ==
    IF mse[1] = 0 THEN FixedString(FALSE, 0, 4)
    ELSE FixedString(FALSE, LargestRounding(0, 1000000, mse[1], mse[2]), 4)

-----------------------------------------------------------------------------
(* calculateScore *)

numQuestions == 10

maxlength == 6

\* the same with a white fallback
userAnswerHex_White(value) ==
    <<"#">> \o (IF value = <<>> THEN <<"F","F","F","F","F","F">> ELSE value)

\* line 130: "#" + (value || "000000")
userAnswerHex(value) ==
    <<"#">> \o (IF value = <<>> THEN <<"0","0","0","0","0","0">> ELSE value)

\* line 139
rgbError(userAnswerRgb, correctAnswerRgb, j) ==
    Rat(userAnswerRgb[j] - correctAnswerRgb[j], 255)

\* the same without line 148: the plain difference of the hues
hueError_Linear(userH, correctH) ==
    RDiv(RAbs(RSub(userH, correctH)), RInt(180))

\* lines 147-149
hueError(userH, correctH) ==
    LET diff         == RAbs(RSub(userH, correctH))
        shortestDiff == RMin(diff, RSub(RInt(360), diff))
    IN  RDiv(shortestDiff, RInt(180))

\* lines 144-152
hslError(userAnswerHsl, correctAnswerHsl, j) ==
    IF j = 1
    THEN hueError(userAnswerHsl[j], correctAnswerHsl[j])
    ELSE RDiv(RSub(userAnswerHsl[j], correctAnswerHsl[j]), RInt(100))

\* one iteration of the loop of lines 127-155: what question q and the input
\* value add to the accumulators
ScoreQuestion(q, value) ==
    LET correctAnswerRgb == <<q.r, q.g, q.b>>
        hex              == userAnswerHex(value)
        userAnswerRgb    == hexToRgb(hex)
        correctAnswerHsl == rgbToHsl(correctAnswerRgb[1], correctAnswerRgb[2],
                                     correctAnswerRgb[3])
        userAnswerHsl    == rgbToHsl(userAnswerRgb[1], userAnswerRgb[2],
                                     userAnswerRgb[3])
        e(j)             == rgbError(userAnswerRgb, correctAnswerRgb, j)
        h(j)             == hslError(userAnswerHsl, correctAnswerHsl, j)
    IN  [rgbError      |-> <<e(1), e(2), e(3)>>,
         hslError      |-> <<h(1), h(2), h(3)>>,
         squaredErrors |-> <<RMul(e(1), e(1)), RMul(e(2), e(2)), RMul(e(3), e(3))>>,
         userAnswerHex |-> hex,
         userAnswerRgb |-> userAnswerRgb]

\* s[lo] + ... + s[hi] (0 when empty).  The code adds from left to right;
\* exact addition is associative, and halving keeps the evaluation shallow.
RECURSIVE RSum(_, _, _)
RSum(s, lo, hi) ==
    IF lo > hi THEN RInt(0)
    ELSE IF lo = hi THEN s[lo]
    ELSE RAdd(RSum(s, lo, (lo + hi) \div 2), RSum(s, ((lo + hi) \div 2) + 1, hi))

RECURSIVE Flatten(_, _)
Flatten(s, k) == IF k = 0 THEN <<>> ELSE Flatten(s, k - 1) \o s[k]

\* the same dividing by the number of questions
PoolSize_PerQuestion(squaredErrors) == Len(squaredErrors) \div 3

\* line 163: the divisor of the mean, squaredErrors.length
PoolSize(squaredErrors) == Len(squaredErrors)

\* the loop of lines 127-155 with numQuestions = n: what each iteration computes
ScoreLoop(n, qs, values) == [i \in 1..n |-> ScoreQuestion(qs[i], values[i])]

\* lines 122-124 and 158-169 with numQuestions = n: the accumulators after the
\* loop whose iterations computed step, the averages, and the text written to
\* the three spans (the fixed parts of the text left out)
ScoreReport(n, step) ==
    LET totalRgbError == [j \in 1..3 |-> RSum([i \in 1..n |-> step[i].rgbError[j]], 1, n)]
        totalHslError == [j \in 1..3 |-> RSum([i \in 1..n |-> step[i].hslError[j]], 1, n)]
        squaredErrors == Flatten([i \in 1..n |-> step[i].squaredErrors], n)
        avgRgbError == [j \in 1..3 |->
            RMul(RDiv(totalRgbError[j], RInt(n)), RInt(100))]
        avgHslError == [j \in 1..3 |->
            RMul(RDiv(totalHslError[j], RInt(n)), RInt(100))]
        meanSquaredError ==
            RDiv(RSum(squaredErrors, 1, Len(squaredErrors)), RInt(PoolSize(squaredErrors)))
    IN  [avgRgbError      |-> avgRgbError,
         avgHslError      |-> avgHslError,
         squaredErrors    |-> squaredErrors,
         meanSquaredError |-> meanSquaredError,
         userAnswerHex    |-> [i \in 1..n |-> step[i].userAnswerHex],
         userAnswerRgb    |-> [i \in 1..n |-> step[i].userAnswerRgb],
         rgbErrorSpan     |-> [j \in 1..3 |-> ToFixed(avgRgbError[j], 2)],
         hslErrorSpan     |-> [j \in 1..3 |-> ToFixed(avgHslError[j], 2)],
         rmseScoreSpan    |-> RmseToFixed4(meanSquaredError)]

\* lines 121-169 with numQuestions = n
calculateScore(n, qs, values) == ScoreReport(n, ScoreLoop(n, qs, values))

\* the spans before calculateScore has ever run
NoReport ==
    [avgRgbError |-> <<>>, avgHslError |-> <<>>, squaredErrors |-> <<>>,
     meanSquaredError |-> <<>>, userAnswerHex |-> <<>>, userAnswerRgb |-> <<>>,
     rgbErrorSpan |-> <<>>, hslErrorSpan |-> <<>>, rmseScoreSpan |-> <<>>]

-----------------------------------------------------------------------------
(* The page: setupQuestions, the input listeners, the two buttons *)

\* the same without line 84: the new questions are pushed after the old ones
NewQuestions_NoClear(old, draws) ==
    old \o [i \in 1..Len(draws) |->
               generateRandomColor(draws[i][1], draws[i][2], draws[i][3])]

\* lines 84 and 90-92: the list is emptied, then one question is pushed per
\* draw; draws[i] is the <<r, g, b>> that Math.random yields for question i
NewQuestions(old, draws) ==
    <<>> \o [i \in 1..Len(draws) |->
                generateRandomColor(draws[i][1], draws[i][2], draws[i][3])]

\* line 85
NewAnswers(n) == [i \in 1..n |-> <<>>]

\* lines 83 and 94-102: the old inputs are dropped, n empty inputs are created
NewInputs(n) == [i \in 1..n |-> <<>>]

\* the same with `some` in place of `every`
InputListener_Some(values) ==
    LET anyFilled == \E i \in DOMAIN values : Len(values[i]) = 6
    IN  ~anyFilled

\* lines 111-113: the value submitButton.disabled gets from the input listener
InputListener(values) ==
    LET allFilled == \A i \in DOMAIN values : Len(values[i]) = 6
    IN  ~allFilled

\* the same without line 86
DisplayAfterSetup_Keep(old) == old

\* line 86: the result area is hidden, whatever it showed
DisplayAfterSetup(old) == "none"

\* lines 81-116
setupQuestions(draws) ==
    /\ questions' = NewQuestions(questions, draws)
    /\ answers' = NewAnswers(nq)
    /\ inputs' = NewInputs(nq)
    /\ resultDisplay' = DisplayAfterSetup(resultDisplay)
    /\ submitDisabled' = TRUE
    /\ lastOp' = "setupQuestions"
    /\ runs' = 0
    /\ UNCHANGED <<nq, scored, report>>

\* calculateScore is followed for at most MaxRuns runs per session
MaxRuns == 2

\* a calculateScore that writes the normalised channel r / 255 back into the
\* questions (0 for every r below 255)
QuestionsAfterScore_Clobbered(qs) ==
    [i \in DOMAIN qs |-> [qs[i] EXCEPT !.r = qs[i].r \div 255]]

\* calculateScore reads questions and the inputs and writes neither
QuestionsAfterScore(qs) == qs

\* lines 121-170
RunCalculateScore ==
    /\ runs < MaxRuns
    /\ scored' = ScoreLoop(nq, questions, inputs)
    /\ report' = ScoreReport(nq, scored')
    /\ resultDisplay' = "block"
    /\ lastOp' = "calculateScore"
    /\ runs' = runs + 1
    /\ questions' = QuestionsAfterScore(questions)
    /\ UNCHANGED <<pc, nq, answers, inputs, submitDisabled>>

\* The outcomes of Math.random the model draws: stream k starts at the k-th
\* sample colour and walks through the samples
SampleColours ==
    << <<255, 0, 0>>, <<0, 255, 0>>, <<6, 1, 0>>, <<6, 0, 1>>, <<0, 0, 0>>,
       <<255, 255, 255>>, <<128, 128, 128>>, <<18, 52, 86>>, <<200, 100, 50>>,
       <<10, 171, 205>>, <<1, 2, 3>> >>

Streams == {1, 2}

RandomDraws(n) ==
    {[i \in 1..n |-> SampleColours[((i + k - 2) % Len(SampleColours)) + 1]] :
        k \in Streams}

\* What the user may leave in input i after one edit: the first RichInputs
\* inputs are typed into freely, the others are filled in one go or cleared
RichInputs == 1

Guess == <<"0","0","F","F","0","0">>

TypedValues(i) ==
    IF i <= RichInputs
    THEN {<<>>, SubSeq(Guess, 1, 5), Guess, <<"1","2","G","4","5","6">>}
    ELSE {<<>>, Guess}

\* line 180: the page load calls setupQuestions
PageLoad ==
    /\ pc = "load"
    /\ pc' = "run"
    /\ \E draws \in RandomDraws(nq) : setupQuestions(draws)

\* line 177: a click on the retry button
RetryClick ==
    /\ pc = "run"
    /\ pc' = pc
    /\ \E draws \in RandomDraws(nq) : setupQuestions(draws)

\* lines 109-114: the user changes input i (at most maxlength characters) and
\* its listener runs
InputEvent ==
    /\ pc = "run"
    /\ \E i \in DOMAIN inputs : \E v \in TypedValues(i) :
          /\ Len(v) <= maxlength
          /\ v # inputs[i]
          /\ inputs' = [inputs EXCEPT ![i] = v]
    /\ submitDisabled' = InputListener(inputs')
    /\ lastOp' = "input"
    /\ UNCHANGED <<pc, nq, questions, answers, resultDisplay, scored, report, runs>>

\* line 174: a click on the submit button; a disabled button fires no click
SubmitClick ==
    /\ pc = "run"
    /\ ~submitDisabled
    /\ RunCalculateScore

\* The script has run up to line 179: no question yet; what the page's markup
\* gives the button and the result area is not in the source
Init ==
    /\ pc = "load"
    /\ nq = numQuestions
    /\ questions = <<>>
    /\ answers = <<>>
    /\ inputs = <<>>
    /\ submitDisabled \in BOOLEAN
    /\ resultDisplay \in {"", "none", "block"}
    /\ scored = <<>>
    /\ report = NoReport
    /\ lastOp = "none"
    /\ runs = 0

Next == PageLoad \/ RetryClick \/ InputEvent \/ SubmitClick

Spec == Init /\ [][Next]_vars

-----------------------------------------------------------------------------
(* calculateScore called on its own, on sessions of n questions.  The code    *)
(* reads the number of questions from the constant numQuestions; here it is  *)
(* the variable nq, so that sessions of one or two questions can be scored.  *)

MaxQuestions == 2

SweepSide == {0, 9, 171, 255}

\* one channel runs through all of 0..255, the two others through SweepSide
SweepColours ==
    UNION {{<<v, a, b>>, <<a, v, b>>, <<a, b, v>>} :
              v \in 0..255, a \in SweepSide, b \in SweepSide}

PairChannels == {0, 1, 6, 128, 255}

PairColours == PairChannels \X PairChannels \X PairChannels

SessionColours == {<<0, 0, 0>>, <<255, 0, 0>>, <<0, 255, 0>>, <<6, 0, 1>>}

\* the six digits a user types for colour c
DigitsOf(c) == Slice1(HexOf(c[1], c[2], c[3]))

SessionAnswers ==
    {DigitsOf(c) : c \in SessionColours}
        \cup {<<>>, <<"1","2","G","4","5","6">>, <<"f","f","0","0","0","0">>}

Malformed ==
    {<<"G","G","G","G","G","G">>, <<"1","2","G","4","5","6">>,
     <<"-","0","0","0","0","1">>, <<" ","0","x","f","f","f">>,
     <<"0","X","1","2","3","4">>, <<"+","0","0","0","F","F">>,
     <<"#","F","F","0","0","0">>, <<"F","F","0","0","0","G">>,
     <<"x","1","2","3","4","5">>, <<"F","F">>, <<"-"," ","1","2","3","4">>}

Question(c) == generateRandomColor(c[1], c[2], c[3])

InitScoreWith(qs, values) ==
    /\ pc = "run"
    /\ nq = Len(qs)
    /\ questions = qs
    /\ answers = NewAnswers(Len(qs))
    /\ inputs = values
    /\ submitDisabled = TRUE
    /\ resultDisplay = "none"
    /\ scored = <<>>
    /\ report = NoReport
    /\ lastOp = "setupQuestions"
    /\ runs = 0

InitScore ==
    \/ \E c \in SweepColours : InitScoreWith(<<Question(c)>>, <<DigitsOf(c)>>)
    \/ \E c \in PairColours, u \in PairColours :
          InitScoreWith(<<Question(c)>>, <<DigitsOf(u)>>)
    \/ \E c \in SessionColours, v \in Malformed :
          InitScoreWith(<<Question(c)>>, <<v>>)
    \/ \E n \in 1..MaxQuestions :
          \E cs \in [1..n -> SessionColours], vs \in [1..n -> SessionAnswers] :
             InitScoreWith([i \in 1..n |-> Question(cs[i])], vs)

\* calculateScore() called once with the inputs as they are
ScoreCall == pc = "run" /\ runs = 0 /\ RunCalculateScore

NextScore == ScoreCall

SpecScore == InitScore /\ [][NextScore]_vars

-----------------------------------------------------------------------------
(* The session's states *)

Idle       == pc = "load"
InProgress == pc = "run" /\ resultDisplay = "none"
Scored     == pc = "run" /\ resultDisplay = "block"

Byte == 0..255

Empty(values) == \A i \in DOMAIN values : values[i] = <<>>

\* hex is "#RRGGBB" in upper-case digits for the channels r, g, b
Encodes(hex, r, g, b) ==
    /\ Len(hex) = 7
    /\ hex[1] = "#"
    /\ \A k \in 2..7 : hex[k] \in Range(HexUpper)
    /\ 16 * HexVal(hex[2]) + HexVal(hex[3]) = r
    /\ 16 * HexVal(hex[4]) + HexVal(hex[5]) = g
    /\ 16 * HexVal(hex[6]) + HexVal(hex[7]) = b

-----------------------------------------------------------------------------
(* Claims about the page, checked under Spec *)

\* C2: whenever the submit button is enabled, each of the numQuestions inputs
\* holds exactly 6 characters, so calculateScore can only be triggered then;
\* and every string calculateScore has handed to hexToRgb is 7 characters long.
C2_SubmitOnlyWhenFilled ==
    /\ (pc = "run" /\ ~submitDisabled) =>
          /\ Len(inputs) = numQuestions
          /\ \A i \in DOMAIN inputs : Len(inputs[i]) = 6
    /\ report # NoReport =>
          /\ Len(report.userAnswerHex) = numQuestions
          /\ \A i \in DOMAIN report.userAnswerHex :
                Len(report.userAnswerHex[i]) = 7 /\ report.userAnswerHex[i][1] = "#"

\* C2 witness: after a scoring (so the button was enabled) the first answer is
\* shortened to 5 characters while the others stay filled; the button is
\* disabled again
C2_Witness ==
    /\ Scored
    /\ lastOp = "input"
    /\ Len(inputs[1]) = 5
    /\ \A i \in 2..Len(inputs) : Len(inputs[i]) = 6
    /\ submitDisabled

\* C3: right after setupQuestions the session holds exactly numQuestions
\* questions, each with channels in 0..255 and a hex field that encodes them,
\* and numQuestions empty answers and empty inputs; nothing older remains.
C3_SetupResets ==
    lastOp = "setupQuestions" =>
        /\ Len(questions) = numQuestions
        /\ \A i \in DOMAIN questions :
              /\ questions[i].r \in Byte
              /\ questions[i].g \in Byte
              /\ questions[i].b \in Byte
              /\ Encodes(questions[i].hex, questions[i].r, questions[i].g,
                         questions[i].b)
        /\ Len(answers) = numQuestions
        /\ Empty(answers)
        /\ Len(inputs) = numQuestions
        /\ Empty(inputs)

\* C3 witness: setupQuestions has run again after a scoring (a retry)
C3_Witness ==
    /\ lastOp = "setupQuestions"
    /\ report # NoReport
    /\ Len(questions) = numQuestions

\* C4 as claimed: calculateScore runs only from InProgress and leads to
\* Scored, setupQuestions leads to InProgress, an input edit changes no state.
C4_Original ==
    [][/\ lastOp' = "calculateScore" => (InProgress /\ Scored')
       /\ lastOp' = "setupQuestions" => InProgress'
       /\ lastOp' = "input" => (InProgress' <=> InProgress) /\ (Scored' <=> Scored)
      ]_vars

\* C4 amended: setupQuestions leads from any state to InProgress with the
\* result area hidden, the submit button disabled and the answers empty;
\* calculateScore leads to Scored from InProgress and also from Scored (the
\* button stays enabled after a scoring); an input edit changes no state; the
\* first step from Idle is setupQuestions.
C4_Transitions ==
    [][/\ lastOp' = "calculateScore" => ((InProgress \/ Scored) /\ Scored')
       /\ lastOp' = "setupQuestions" =>
             /\ InProgress'
             /\ submitDisabled'
             /\ Empty(answers') /\ Empty(inputs')
             /\ runs' = 0
       /\ lastOp' = "input" => (InProgress' <=> InProgress) /\ (Scored' <=> Scored)
       /\ Idle => lastOp' = "setupQuestions"
      ]_vars

\* C4 witness: calculateScore has run a second time in one session
C4_Witness == Scored /\ runs = 2 /\ lastOp = "calculateScore"

\* C5: calculateScore and the input edits leave the questions as they are, and
\* a scoring that directly follows a scoring shows the same report.
C5_QuestionsFrame ==
    [][/\ lastOp' \in {"calculateScore", "input"} => questions' = questions
       /\ (lastOp = "calculateScore" /\ lastOp' = "calculateScore") =>
             report' = report
      ]_vars

\* C5 witness: two scorings in a row, the questions still complete
C5_Witness ==
    /\ runs = 2
    /\ lastOp = "calculateScore"
    /\ Len(questions) = numQuestions
    /\ \A i \in DOMAIN questions :
          Encodes(questions[i].hex, questions[i].r, questions[i].g, questions[i].b)

-----------------------------------------------------------------------------
(* Claims about the conversions and calculateScore, checked under SpecScore *)

HasScored == lastOp = "calculateScore"

Rgb(q) == <<q.r, q.g, q.b>>

AllCorrect == \A i \in DOMAIN inputs : inputs[i] = Slice1(questions[i].hex)

ZeroText == <<"0", ".", "0", "0">>

\* C1: the hex string generateRandomColor builds for r, g, b is parsed back
\* by hexToRgb to exactly r, g, b; so is the same string typed as an answer.
C1_HexRoundTrip ==
    /\ \A i \in DOMAIN questions :
          hexToRgb(questions[i].hex) = Rgb(questions[i])
    /\ HasScored =>
          \A i \in DOMAIN questions :
             inputs[i] = Slice1(questions[i].hex) =>
                report.userAnswerRgb[i] = Rgb(questions[i])

\* C1 witness: the colour (10, 171, 255), whose first byte needs the padding
\* zero, has been formatted as #0AABFF and parsed back
C1_Witness ==
    /\ HasScored
    /\ Rgb(questions[1]) = <<10, 171, 255>>
    /\ questions[1].hex = <<"#", "0", "A", "A", "B", "F", "F">>
    /\ report.userAnswerRgb[1] = <<10, 171, 255>>

\* C6: when every answer is its question's six digits, the average RGB and
\* HSL errors are all 0 and so is the RMSE, shown as 0.00 and 0.0000.
C6_AllCorrectIsZero ==
    (HasScored /\ AllCorrect) =>
        /\ report.avgRgbError = <<RInt(0), RInt(0), RInt(0)>>
        /\ report.avgHslError = <<RInt(0), RInt(0), RInt(0)>>
        /\ report.meanSquaredError = RInt(0)
        /\ report.rgbErrorSpan = <<ZeroText, ZeroText, ZeroText>>
        /\ report.hslErrorSpan = <<ZeroText, ZeroText, ZeroText>>
        /\ report.rmseScoreSpan = <<"0", ".", "0", "0", "0", "0">>

\* C6 witness: a session of two different, correctly answered questions
C6_Witness ==
    /\ HasScored
    /\ AllCorrect
    /\ nq = 2
    /\ Rgb(questions[1]) = <<255, 0, 0>>
    /\ Rgb(questions[2]) = <<6, 0, 1>>

HasNonHex(v) == \E k \in DOMAIN v : ~IsHexDigit(v[k])

\* what JavaScript returns for hexToRgb("#" + v), v in Malformed
ExpectedRgb(v) ==
    CASE v = <<"1","2","G","4","5","6">> -> <<0, 0, 18>>
      [] v = <<"-","0","0","0","0","1">> -> <<255, 255, 255>>
      [] v = <<" ","0","x","f","f","f">> -> <<0, 15, 255>>
      [] v = <<"0","X","1","2","3","4">> -> <<0, 18, 52>>
      [] v = <<"+","0","0","0","F","F">> -> <<0, 0, 255>>
      [] v = <<"F","F","0","0","0","G">> -> <<15, 240, 0>>
      [] v = <<"F","F">>                 -> <<0, 0, 255>>
      [] OTHER                           -> <<0, 0, 0>>

IsNumber(x) == x[1] \in Int /\ x[2] \in Int /\ x[2] > 0

\* C7 as claimed: an answer with a character that is no hexadecimal digit
\* gives channels that are NaN, no integers.
C7_Original ==
    HasScored =>
        \A i \in DOMAIN inputs :
           HasNonHex(inputs[i]) =>
              \A j \in 1..3 : report.userAnswerRgb[i][j] \notin Int

\* C7 amended: no input makes hexToRgb fail or return NaN.  parseInt reads the
\* longest run of hexadecimal digits after optional white space, sign and 0x,
\* and is NaN only when that run is empty; the shifts turn NaN into 0.  So the
\* channels are always integers in 0..255 (0, 0, 0 for a string that does not
\* start with a digit) and the metrics are ordinary numbers.
C7_MalformedGivesIntegers ==
    HasScored =>
        /\ \A i \in DOMAIN inputs :
              /\ \A j \in 1..3 : report.userAnswerRgb[i][j] \in Byte
              /\ inputs[i] \in Malformed =>
                    report.userAnswerRgb[i] = ExpectedRgb(inputs[i])
        /\ \A j \in 1..3 :
              IsNumber(report.avgRgbError[j]) /\ IsNumber(report.avgHslError[j])
        /\ IsNumber(report.meanSquaredError)

\* C7 witness: the answer 12G456 has been scored as (0, 0, 18)
C7_Witness ==
    /\ HasScored
    /\ inputs[1] = <<"1","2","G","4","5","6">>
    /\ report.userAnswerRgb[1] = <<0, 0, 18>>

Black == <<"0","0","0","0","0","0">>

Blacken(values) ==
    [i \in DOMAIN values |-> IF values[i] = <<>> THEN Black ELSE values[i]]

\* the user's colour for question i, an empty answer read as black
UserRgb(i) == IF inputs[i] = <<>> THEN <<0, 0, 0>> ELSE report.userAnswerRgb[i]

RECURSIVE SumOver(_, _)
SumOver(f, k) == IF k = 0 THEN 0 ELSE SumOver(f, k - 1) + f[k]

\* C8: an empty answer is scored as 000000: the report is the one of the same
\* session with 000000 in its place, the question counts in the divisor
\* numQuestions and adds three squared errors to the pool, and an empty answer
\* to a black question has error 0 on every channel.
C8_EmptyIsBlack ==
    HasScored =>
        /\ report = calculateScore(nq, questions, Blacken(inputs))
        /\ Len(report.squaredErrors) = 3 * nq
        /\ \A j \in 1..3 :
              report.avgRgbError[j] =
                 Rat(100 * SumOver([i \in 1..nq |-> UserRgb(i)[j] - Rgb(questions[i])[j]], nq),
                     255 * nq)
        /\ \A i \in DOMAIN inputs :
              (inputs[i] = <<>> /\ Rgb(questions[i]) = <<0, 0, 0>>) =>
                  \A j \in 1..3 : report.squaredErrors[3 * (i - 1) + j] = RInt(0)
        /\ (nq = 1 /\ inputs[1] = <<>> /\ Rgb(questions[1]) = <<0, 0, 0>>) =>
              /\ report.avgRgbError = <<RInt(0), RInt(0), RInt(0)>>
              /\ report.avgHslError = <<RInt(0), RInt(0), RInt(0)>>
              /\ report.meanSquaredError = RInt(0)

\* C8 witness: a red question left unanswered next to a correct answer: the
\* empty answer halves into the red average as -100 / 2
C8_Witness ==
    /\ HasScored
    /\ nq = 2
    /\ inputs[1] = <<>>
    /\ Rgb(questions[1]) = <<255, 0, 0>>
    /\ inputs[2] = Slice1(questions[2].hex)
    /\ report.avgRgbError[1] = RInt(0 - 50)

\* the hue of colour c
Hue(c) == rgbToHsl(c[1], c[2], c[3])[1]

\* the shorter way round the circle between the hues x and y
CircularDistance(x, y) ==
    LET d == IF RLess(x, y) THEN RSub(y, x) ELSE RSub(x, y)
    IN  IF RLess(RInt(180), d) THEN RSub(RInt(360), d) ELSE d

\* C9: the hue error of a question is the circular distance of the two hues
\* divided by 180 and lies in 0..1; between the hues 10 and 350 it is 20/180.
C9_HueErrorCircular ==
    HasScored =>
        /\ ~RLess(report.avgHslError[1], RInt(0))
        /\ ~RLess(RInt(100), report.avgHslError[1])
        /\ nq = 1 =>
              report.avgHslError[1] =
                 RMul(RInt(100),
                      RDiv(CircularDistance(Hue(report.userAnswerRgb[1]),
                                            Hue(Rgb(questions[1]))),
                           RInt(180)))
        /\ (nq = 1 /\ Rgb(questions[1]) = <<6, 0, 1>>
                   /\ report.userAnswerRgb[1] = <<6, 1, 0>>) =>
              /\ Hue(Rgb(questions[1])) = RInt(350)
              /\ Hue(report.userAnswerRgb[1]) = RInt(10)
              /\ report.avgHslError[1] = Rat(100 * 20, 180)

\* C9 witness: the hues 10 and 350 have been compared
C9_Witness ==
    /\ HasScored
    /\ nq = 1
    /\ Rgb(questions[1]) = <<6, 0, 1>>
    /\ report.userAnswerRgb[1] = <<6, 1, 0>>
    /\ report.hslErrorSpan[1] = <<"1", "1", ".", "1", "1">>

\* the sum over the questions of the squared channel differences
SquaredDiffs ==
    SumOver([i \in 1..nq |->
                SumOver([j \in 1..3 |->
                    (report.userAnswerRgb[i][j] - Rgb(questions[i])[j])
                        * (report.userAnswerRgb[i][j] - Rgb(questions[i])[j])], 3)],
            nq)

\* C10: the mean squared error is the sum of all 3 * numQuestions squared
\* normalised channel errors divided by 3 * numQuestions (the RMSE is 100
\* times its root), each average RGB error is 100 times the channel's summed
\* signed errors divided by numQuestions; red answered 00FF00 in a
\* one-question session gives -100, 100, 0 and 81.6497.
C10_PooledRmse ==
    HasScored =>
        /\ Len(report.squaredErrors) = 3 * nq
        /\ report.meanSquaredError = Rat(SquaredDiffs, 255 * 255 * 3 * nq)
        /\ \A j \in 1..3 :
              report.avgRgbError[j] =
                 Rat(100 * SumOver([i \in 1..nq |->
                        report.userAnswerRgb[i][j] - Rgb(questions[i])[j]], nq),
                     255 * nq)
        /\ (nq = 1 /\ Rgb(questions[1]) = <<255, 0, 0>>
                   /\ inputs[1] = <<"0","0","F","F","0","0">>) =>
              /\ report.avgRgbError = <<RInt(0 - 100), RInt(100), RInt(0)>>
              /\ report.meanSquaredError = Rat(2, 3)
              /\ report.rmseScoreSpan = <<"8", "1", ".", "6", "4", "9", "7">>

\* C10 witness: red answered 00FF00 in a one-question session
C10_Witness ==
    /\ HasScored
    /\ nq = 1
    /\ Rgb(questions[1]) = <<255, 0, 0>>
    /\ inputs[1] = <<"0","0","F","F","0","0">>
    /\ report.rgbErrorSpan =
          << <<"-","1","0","0",".","0","0">>, <<"1","0","0",".","0","0">>, ZeroText >>

=============================================================================
